---- MODULE Spec2Model ----
(***************************************************************************)
(* Model of the opik guardrails orchestration layer:                       *)
(*   guards/pgai/pointguardai.py     the policy guard and its constructor  *)
(*   guards/pgai/pointguard_api_client.py   the remote policy client       *)
(*   schemas.py                      the result model                      *)
(*   guardrail.py                    the Guardrail orchestrator            *)
(* The sources spell the policy guard both PointGuard and PointGuardAi     *)
(* (pointguard.py and pointguardai.py are the same file up to that name);  *)
(* the model treats the two spellings as one class.  The one place where   *)
(* the spelling changes behaviour, ValidationType.PointGuardAi in          *)
(* get_validation_configs, is modelled as a choice between both outcomes.  *)
(***************************************************************************)
EXTENDS Integers, Sequences, FiniteSets, TLC

\* ------------------------------------------------------------------------
\* Bounds
\* ------------------------------------------------------------------------
MaxGuards == 2

\* ------------------------------------------------------------------------
\* Python values
\* ------------------------------------------------------------------------
None == "<None>"

Truthy(s) == s # None /\ s # ""

\* Python's `a or b` on optional strings
Or(a, b) == IF Truthy(a) THEN a ELSE b

\* dict.get(k, default)
Get(d, k, default) == IF k \in DOMAIN d THEN d[k] ELSE default

\* Optional[record] as a sequence of length 0 or 1
Nothing == <<>>

Some(x) == <<x>>

RECURSIVE SelectFailed(_)
\* the items of a Check Item list with validation_passed = False, in order
SelectFailed(vs) ==
    IF vs = <<>> THEN <<>>
    ELSE IF ~Head(vs).validation_passed
         THEN <<Head(vs)>> \o SelectFailed(Tail(vs))
         ELSE SelectFailed(Tail(vs))

RECURSIVE Flatten(_)
Flatten(ss) == IF ss = <<>> THEN <<>> ELSE Head(ss) \o Flatten(Tail(ss))

SeqsUpTo(S, n) == UNION {[1..k -> S] : k \in 0..n}

\* ------------------------------------------------------------------------
\* guards/pgai/pointguardai.py
\* ------------------------------------------------------------------------
POINTGUARDAI_DEFAULT_BASE_URL == "https://api.sqa1.appsoc.com/aisec-rdc/api/v1"

POINTGUARDAI_DEFAULT_ORG == "demodevelop"

\* os.getenv(name, default): an unset variable is None in the env record
getenv(e, name, default) == IF e[name] = None THEN default ELSE e[name]

NoGuard ==
    [kind |-> None, policy_name |-> None, api_key |-> None, org |-> None,
     base_url |-> None]

PointGuardAiInit_KeyCheckedFirst(policy_name, api_key, org, e) ==
    LET key   == Or(api_key, getenv(e, "POINTGUARDAI_API_KEY", None))
        org_  == Or(org, getenv(e, "POINTGUARDAI_ORG", POINTGUARDAI_DEFAULT_ORG))
        base  == getenv(e, "POINTGUARDAI_BASE_URL", POINTGUARDAI_DEFAULT_BASE_URL)
        reads == (IF Truthy(api_key) THEN <<>> ELSE <<"POINTGUARDAI_API_KEY">>)
                 \o (IF Truthy(org) THEN <<>> ELSE <<"POINTGUARDAI_ORG">>)
                 \o <<"POINTGUARDAI_BASE_URL">>
    IN IF ~Truthy(key)
       THEN [raised |-> "ValueError: api_key is required", reads |-> reads,
             guard |-> NoGuard]
       ELSE IF ~Truthy(org_)
       THEN [raised |-> "ValueError: org is required", reads |-> reads,
             guard |-> NoGuard]
       ELSE IF ~Truthy(policy_name)
       THEN [raised |-> "ValueError: policy_name is required", reads |-> reads,
             guard |-> NoGuard]
       ELSE [raised |-> None, reads |-> reads,
             guard |-> [kind |-> "PointGuardAi", policy_name |-> policy_name,
                        api_key |-> key, org |-> org_, base_url |-> base]]

\* PointGuardAi.__init__ with the orders of its checks and environment reads;
\* reads lists the environment variables consulted before the constructor ended
PointGuardAiInit(policy_name, api_key, org, e) ==
    IF ~Truthy(policy_name)
    THEN [raised |-> "ValueError: policy_name is required", reads |-> <<>>,
          guard |-> NoGuard]
    ELSE LET key   == Or(api_key, getenv(e, "POINTGUARDAI_API_KEY", None))
             org_  == Or(org, getenv(e, "POINTGUARDAI_ORG", POINTGUARDAI_DEFAULT_ORG))
             base  == getenv(e, "POINTGUARDAI_BASE_URL", POINTGUARDAI_DEFAULT_BASE_URL)
             reads == (IF Truthy(api_key) THEN <<>> ELSE <<"POINTGUARDAI_API_KEY">>)
                      \o (IF Truthy(org) THEN <<>> ELSE <<"POINTGUARDAI_ORG">>)
                      \o <<"POINTGUARDAI_BASE_URL">>
         IN IF ~Truthy(key)
            THEN [raised |-> "ValueError: api_key is required", reads |-> reads,
                  guard |-> NoGuard]
            ELSE IF ~Truthy(org_)
            THEN [raised |-> "ValueError: org is required", reads |-> reads,
                  guard |-> NoGuard]
            ELSE [raised |-> None, reads |-> reads,
                  guard |-> [kind |-> "PointGuardAi", policy_name |-> policy_name,
                             api_key |-> key, org |-> org_, base_url |-> base]]

\* class attribute `remote = True`; the orchestrator tests isinstance(guard, PointGuardAi)
IsPointGuardAi(g) == g.kind = "PointGuardAi"

\* PointGuardAi.get_validation_configs
PointGuardAi_get_validation_configs(g) ==
    <<[type |-> "POINTGUARD", config |-> g.policy_name]>>

\* Topic / PII guards: one check-config each for the local backend
LocalGuard(k) ==
    [kind |-> k, policy_name |-> None, api_key |-> None, org |-> None,
     base_url |-> None]

Local_get_validation_configs(g) ==
    <<[type |-> (IF g.kind = "Topic" THEN "TOPIC" ELSE "PII"), config |-> g.kind]>>

get_validation_configs(g) ==
    IF IsPointGuardAi(g) THEN PointGuardAi_get_validation_configs(g)
    ELSE Local_get_validation_configs(g)

\* ------------------------------------------------------------------------
\* guards/pgai/pointguard_api_client.py
\* ------------------------------------------------------------------------
NoTimeout == -1

DefaultTimeout == 30

\* str.rstrip("/") on the base URLs of the model
RStripSlash(u) == IF u = "https://pg.example/" THEN "https://pg.example" ELSE u

PointGuardApiClientInit_NoDefault(base_url, api_key, org, timeout) ==
    [_base_url |-> RStripSlash(base_url), _api_key |-> api_key, _org |-> org,
     _timeout |-> timeout]

\* PointGuardApiClient.__init__
PointGuardApiClientInit(base_url, api_key, org, timeout) ==
    [_base_url |-> RStripSlash(base_url), _api_key |-> api_key, _org |-> org,
     _timeout |-> IF timeout = NoTimeout \/ timeout = 0 THEN DefaultTimeout ELSE timeout]

\* PointGuardApiClient._get_headers
_get_headers(client) == client._api_key

\* the POST issued by PointGuardApiClient.validate_input
InputRequest(client, text, policy_name) ==
    [backend |-> "remote", base |-> client._base_url, org |-> client._org,
     route |-> "inspect/input", api_key |-> _get_headers(client),
     policyName |-> policy_name, input |-> text, output |-> None,
     validations |-> <<>>, timeout |-> client._timeout,
     status |-> 0, body |-> <<>>]

\* the POST issued by PointGuardApiClient.validate_output
OutputRequest(client, input_text, output_text, policy_name) ==
    [backend |-> "remote", base |-> client._base_url, org |-> client._org,
     route |-> "inspect/output", api_key |-> _get_headers(client),
     policyName |-> policy_name, input |-> input_text, output |-> output_text,
     validations |-> <<>>, timeout |-> client._timeout,
     status |-> 0, body |-> <<>>]

raise_for_status_Never(status) == FALSE

\* response.raise_for_status(): raises httpx.HTTPStatusError unless 2xx
raise_for_status(status) == status < 200 \/ status >= 300

\* a request of the log with the response it received
Answered(request, status, body) ==
    [request EXCEPT !.status = status, !.body = body]

\* one normalized violation descriptor
NormalizeViolation(v) ==
    [name |-> Get(v, "name", None), type |-> Get(v, "type", None),
     action |-> Get(v, "action", None), categories |-> Get(v, "categories", <<>>),
     matchCount |-> Get(v, "matchCount", 0)]

RawViolations_AiFirst(item) ==
    Get(item, "aiViolations", <<>>) \o Get(item, "dlpViolations", <<>>)

\* `dlp_violations + ai_violations` of the first content item
RawViolations(item) ==
    Get(item, "dlpViolations", <<>>) \o Get(item, "aiViolations", <<>>)

ModifiedContentOf_Always(modified, item) == Get(item, "modifiedContent", None)

\* `if modified: modified_content = item.get("modifiedContent")`
ModifiedContentOf(modified, item) ==
    IF modified THEN Get(item, "modifiedContent", None) ELSE None

ValidationPassedOf_UnlessModified(blocked, modified) == ~blocked \/ modified

\* `validation_passed = not blocked` in _parse_result_section
ValidationPassedOf(blocked, modified) == ~blocked

\* PointGuardApiClient._parse_result_section
_parse_result_section(result_section, policy_name, original_text) ==
    LET blocked == Get(result_section, "blocked", FALSE)
        modified == Get(result_section, "modified", FALSE)
        content_items == Get(result_section, "content", <<>>)
        item == content_items[1]
        raw == RawViolations(item)
        violations ==
            IF content_items # <<>>
            THEN [k \in 1..Len(raw) |-> NormalizeViolation(raw[k])]
            ELSE <<>>
        modified_content ==
            IF content_items # <<>>
            THEN ModifiedContentOf(modified, item)
            ELSE None
        validation_details ==
            [blocked |-> blocked, modified |-> modified, violations |-> violations,
             modified_content |-> modified_content]
        validation_passed == ValidationPassedOf(blocked, modified)
        validation_result ==
            [validation_passed |-> validation_passed, type |-> "POINTGUARD",
             validation_config |-> policy_name,
             validation_details |-> Some(validation_details)]
    IN [cls |-> "PointGuardValidationResponse",
        validation_passed |-> validation_passed,
        validations |-> <<validation_result>>,
        details |-> Some(validation_details),
        guardrail_result |-> None]

\* PointGuardApiClient._parse_input_response
_parse_input_response(response_data, policy_name, original_text) ==
    _parse_result_section(Get(response_data, "input", <<>>), policy_name, original_text)

_parse_output_response_ReadsInput(response_data, policy_name, original_text) ==
    _parse_result_section(Get(response_data, "input", <<>>), policy_name, original_text)

\* PointGuardApiClient._parse_output_response
_parse_output_response(response_data, policy_name, original_text) ==
    _parse_result_section(Get(response_data, "output", <<>>), policy_name, original_text)

\* ------------------------------------------------------------------------
\* schemas.py
\* ------------------------------------------------------------------------
\* PointGuardValidationResponse.get_validated_content
get_validated_content(result, original_content) ==
    LET details == result.details[1]
    IN IF details.modified /\ Truthy(details.modified_content)
       THEN details.modified_content
       ELSE original_content

\* only PointGuardValidationResponse defines get_validated_content
HasGetValidatedContent(result) == result.cls = "PointGuardValidationResponse"

\* ------------------------------------------------------------------------
\* guardrail.py: state
\* ------------------------------------------------------------------------
VARIABLES
    ctor,                   \* the last PointGuardAi(...) constructor call and how it ended
    guards,                 \* Guardrail.guards
    constructed,            \* Guardrail.__init__ has run
    guardrail_timeout,      \* Guardrail.config_.guardrail_timeout
    _pointguardai_guards,   \* Guardrail._pointguardai_guards
    _pointguardai_clients,  \* Guardrail._pointguardai_clients, keyed by base_url
    call,                   \* the validate call in flight: its locals and position
    httpLog,                \* the HTTP requests the call in flight has issued
    streamer,               \* the messages the call in flight has put on _client._streamer
    outcome,                \* how the last call ended: value returned or exception raised
    threads                 \* concurrent callers of one orchestrator: each one's call, requests, outcome

vars ==
    <<ctor, guards, constructed, guardrail_timeout, _pointguardai_guards,
      _pointguardai_clients, call, httpLog, streamer, outcome, threads>>

NoClients == [u \in {} |-> None]

RegisterClients_KeyedByHandleUrl(gs, clients, timeout) ==
    LET pgs == {k \in 1..Len(gs) : IsPointGuardAi(gs[k])}
        idx(u) == {k \in pgs : RStripSlash(gs[k].base_url) = u}
        first(u) == gs[CHOOSE k \in idx(u) : \A j \in idx(u) : k <= j]
    IN [u \in {RStripSlash(gs[k].base_url) : k \in pgs} |->
          PointGuardApiClientInit(first(u).base_url, first(u).api_key,
                                  first(u).org, timeout)]

RECURSIVE RegisterClients(_, _, _)
\* the loop of Guardrail.__init__ over guards: the first guard of each
\* base_url creates the client of that base_url
RegisterClients(gs, clients, timeout) ==
    IF gs = <<>> THEN clients
    ELSE LET guard == Head(gs)
         IN IF IsPointGuardAi(guard) /\ guard.base_url \notin DOMAIN clients
            THEN RegisterClients(Tail(gs),
                     clients @@ (guard.base_url :>
                         PointGuardApiClientInit(guard.base_url, guard.api_key,
                                                 guard.org, timeout)),
                     timeout)
            ELSE RegisterClients(Tail(gs), clients, timeout)

NoCtor ==
    [policy_name |-> None, api_key |-> None, org |-> None,
     env |-> [POINTGUARDAI_API_KEY |-> None, POINTGUARDAI_ORG |-> None,
              POINTGUARDAI_BASE_URL |-> None],
     called |-> FALSE, raised |-> None, reads |-> <<>>]

IdleCall ==
    [pc |-> "idle", op |-> None, path |-> None, generation |-> None,
     input_text |-> None, text |-> None, i |-> 1, all_validations |-> <<>>,
     all_passed |-> TRUE, last_details |-> Nothing]

NoResult ==
    [cls |-> None, validation_passed |-> TRUE, validations |-> <<>>,
     details |-> Nothing, guardrail_result |-> None]

NoOutcome ==
    [kind |-> "none", result |-> NoResult, failed_validations |-> <<>>,
     content |-> None]

\* ------------------------------------------------------------------------
\* Inputs of the model
\* ------------------------------------------------------------------------
EnvUnset ==
    [POINTGUARDAI_API_KEY |-> None, POINTGUARDAI_ORG |-> None,
     POINTGUARDAI_BASE_URL |-> None]

Envs ==
    [POINTGUARDAI_API_KEY : {None, "env-key"},
     POINTGUARDAI_ORG : {None, "", "env-org"},
     POINTGUARDAI_BASE_URL : {None, "https://pg.example/"}]

PolicyArgs == {None, "", "policy-1"}

ApiKeyArgs == {None, "key-1"}

OrgArgs == {None, "", "org-1"}

\* guards an orchestrator is built from: two policy guards on the default
\* endpoint with different credentials, one on another endpoint, two local guards
GuardPool ==
    { PointGuardAiInit("policy-1", "key-1", "org-1", EnvUnset).guard,
      PointGuardAiInit("policy-2", None, None,
          [EnvUnset EXCEPT !.POINTGUARDAI_API_KEY = "env-key"]).guard,
      PointGuardAiInit("policy-1", "key-1", "org-1",
          [EnvUnset EXCEPT !.POINTGUARDAI_BASE_URL = "https://pg.example/"]).guard,
      LocalGuard("Topic"), LocalGuard("PII") }

Texts == {"text"}

InputTexts == {"question"}

ModifiedContents == {None, "", "REDACTED"}

ContentItems ==
    {[originalContent |-> "text", modifiedContent |-> mc,
      dlpViolations |-> <<>>, aiViolations |-> <<>>] : mc \in ModifiedContents}

\* the "input" / "output" section of a policy response
Sections ==
    {[blocked |-> b, modified |-> m, content |-> <<it>>] :
        b \in BOOLEAN, m \in BOOLEAN, it \in ContentItems}

\* the section of the other direction in an output response
OtherSection ==
    [blocked |-> TRUE, modified |-> TRUE,
     content |-> <<[originalContent |-> "question", modifiedContent |-> "OTHER",
                    dlpViolations |-> <<>>, aiViolations |-> <<>>]>>]

HttpStatuses == {200, 500}

\* ------------------------------------------------------------------------
\* Local backend client (rest_api_client.GuardrailsApiClient.validate):
\* POST <host>/validate with {generation, validations}; the response carries
\* one Check Item per requested config, in request order, and their AND
\* ------------------------------------------------------------------------
LocalRequest(generation, validations, timeout) ==
    [backend |-> "local", base |-> "guardrails_backend_host", org |-> None,
     route |-> "validate", api_key |-> None, policyName |-> None,
     input |-> generation, output |-> None, validations |-> validations,
     timeout |-> timeout, status |-> 0, body |-> <<>>]

LocalResult(validations, flags) ==
    [cls |-> "ValidationResponse",
     validation_passed |-> \A k \in 1..Len(validations) : flags[k],
     validations |->
        [k \in 1..Len(validations) |->
            [validation_passed |-> flags[k], type |-> validations[k].type,
             validation_config |-> validations[k].config,
             validation_details |-> Nothing]],
     details |-> Nothing,
     guardrail_result |-> None]

\* ------------------------------------------------------------------------
\* guardrail.py: operations
\* ------------------------------------------------------------------------
AndGetOps == {"validate_and_get_input", "validate_and_get_output"}

UsesRemote_AllRemote(pgs) == pgs # <<>> /\ Len(pgs) = Len(guards)

\* `if self._pointguardai_guards:` in validate_input / validate_output
UsesRemote(pgs) == pgs # <<>>

OutputFallbackText_Input(input_text, output_text) == input_text

\* `return self.validate(output_text)`, the fallback of validate_output
OutputFallbackText(input_text, output_text) == output_text

\* the guardrail_result set before the result is returned for tracking
WithGuardrailResult(result) ==
    [result EXCEPT !.guardrail_result =
        IF ~result.validation_passed THEN "failed" ELSE "passed"]

_parse_result_AllItems(result) ==
    IF ~result.validation_passed
    THEN [kind |-> "GuardrailValidationFailed", result |-> result,
          failed_validations |-> result.validations, content |-> None]
    ELSE [kind |-> "returned", result |-> result, failed_validations |-> <<>>,
          content |-> None]

\* Guardrail._parse_result
_parse_result(result) ==
    IF ~result.validation_passed
    THEN [kind |-> "GuardrailValidationFailed", result |-> result,
          failed_validations |-> SelectFailed(result.validations),
          content |-> None]
    ELSE [kind |-> "returned", result |-> result, failed_validations |-> <<>>,
          content |-> None]

\* the tail of validate_and_get_input / validate_and_get_output:
\* result.get_validated_content(text) on what validate_input / validate_output returned
AndGet(out, op, original) ==
    IF out.kind = "returned" /\ op \in AndGetOps
    THEN IF HasGetValidatedContent(out.result)
         THEN [out EXCEPT !.kind = "returned_content",
                          !.content = get_validated_content(out.result, original)]
         ELSE [out EXCEPT !.kind = "AttributeError"]
    ELSE out

PcOf(out) ==
    IF out.kind \in {"returned", "returned_content"} THEN "passed"
    ELSE IF out.kind = "GuardrailValidationFailed" THEN "failed"
    ELSE "error"

Raise(kind) == [NoOutcome EXCEPT !.kind = kind]

CallEnded == call.pc \in {"idle", "passed", "failed", "error"}

Begin(op, path, generation, input_text, text) ==
    /\ constructed
    /\ CallEnded
    /\ call' = [IdleCall EXCEPT !.pc = "dispatching", !.op = op, !.path = path,
                                !.generation = generation,
                                !.input_text = input_text,
                                !.text = text]
    /\ httpLog' = <<>>
    /\ streamer' = <<>>
    /\ outcome' = NoOutcome
    /\ UNCHANGED <<threads, ctor, guards, constructed, guardrail_timeout,
                   _pointguardai_guards, _pointguardai_clients>>

\* Guardrail.validate
validate ==
    \E text \in Texts : Begin("validate", "local", text, None, text)

\* Guardrail.validate_input
validate_input ==
    \E text \in Texts :
        Begin("validate_input",
              IF UsesRemote(_pointguardai_guards) THEN "input" ELSE "local",
              text, None, text)

\* Guardrail.validate_output
validate_output ==
    \E input_text \in InputTexts, output_text \in Texts :
        IF UsesRemote(_pointguardai_guards)
        THEN Begin("validate_output", "output", output_text, input_text, output_text)
        ELSE Begin("validate_output", "local",
                   OutputFallbackText(input_text, output_text), input_text,
                   output_text)

\* Guardrail.validate_and_get_input
validate_and_get_input ==
    \E text \in Texts :
        Begin("validate_and_get_input",
              IF UsesRemote(_pointguardai_guards) THEN "input" ELSE "local",
              text, None, text)

\* Guardrail.validate_and_get_output
validate_and_get_output ==
    \E input_text \in InputTexts, output_text \in Texts :
        IF UsesRemote(_pointguardai_guards)
        THEN Begin("validate_and_get_output", "output", output_text, input_text, output_text)
        ELSE Begin("validate_and_get_output", "local",
                   OutputFallbackText(input_text, output_text), input_text,
                   output_text)

End(out) ==
    /\ outcome' = out
    /\ call' = [call EXCEPT !.pc = PcOf(out)]

\* the GuardrailBatchMessage built in _validate: one item per validation,
\* tagged with the ids of the current trace and span
GuardrailBatch(result) ==
    [k \in 1..Len(result.validations) |->
        [entity_id |-> "current_trace.id", secondary_id |-> "current_span.id",
         name |-> result.validations[k].type,
         result |-> IF result.validations[k].validation_passed
                    THEN "passed" ELSE "failed",
         config |-> result.validations[k].validation_config,
         details |-> result.validations[k].validation_details]]

\* the check-configs Guardrail._validate collects, in guard order
CollectConfigs(gs) ==
    Flatten([k \in 1..Len(gs) |-> get_validation_configs(gs[k])])

\* what get_current_span_data() / get_current_trace_data() return: None
\* when no span / trace is active
SpanContexts == {None, "current_span"}

TraceContexts == {None, "current_trace"}

\* Guardrail._validate followed by _parse_result: the local-backend path.
\* After the backend answered, `assert current_span is not None` and
\* `assert current_trace is not None` raise AssertionError without an active
\* context, and an exception of self._client._streamer.put(message) is not
\* caught.
\* pointguardai.py names the enum member ValidationType.PointGuardAi, which
\* schemas.py does not define (pointguard.py names POINTGUARD): collecting
\* the configs of a policy guard either raises AttributeError or yields the config.
_validate ==
    /\ call.pc = "dispatching"
    /\ call.path = "local"
    /\ LET validations == CollectConfigs(guards)
           request == LocalRequest(call.generation, validations, guardrail_timeout)
       IN \/ /\ \E k \in 1..Len(guards) : IsPointGuardAi(guards[k])
             /\ End(Raise("AttributeError"))
             /\ UNCHANGED <<httpLog, streamer>>
          \/ \E status \in HttpStatuses :
                IF raise_for_status(status)
                THEN /\ httpLog' = Append(httpLog, Answered(request, status, <<>>))
                     /\ End(Raise("HTTPStatusError"))
                     /\ UNCHANGED streamer
                ELSE \E flags \in [1..Len(validations) -> BOOLEAN],
                        current_span \in SpanContexts,
                        current_trace \in TraceContexts,
                        put_raises \in BOOLEAN :
                        LET result == WithGuardrailResult(LocalResult(validations, flags))
                        IN /\ httpLog' = Append(httpLog,
                                             Answered(request, status, flags))
                           /\ IF current_span = None \/ current_trace = None
                              THEN /\ End(Raise("AssertionError"))
                                   /\ UNCHANGED streamer
                              ELSE IF put_raises
                              THEN /\ End(Raise("StreamerError"))
                                   /\ UNCHANGED streamer
                              ELSE /\ streamer' = Append(streamer, GuardrailBatch(result))
                                   /\ End(AndGet(_parse_result(result), call.op,
                                                 call.text))
    /\ UNCHANGED <<threads, ctor, guards, constructed, guardrail_timeout,
                   _pointguardai_guards, _pointguardai_clients>>

\* the request one iteration of the loop of _validate_input / _validate_output sends
RemoteRequest(client, pg_guard, c) ==
    IF c.path = "input"
    THEN InputRequest(client, c.generation, pg_guard.policy_name)
    ELSE OutputRequest(client, c.input_text, c.generation, pg_guard.policy_name)

\* the response body of a policy backend route
ResponseData(path, section) ==
    IF path = "input" THEN [input |-> section]
    ELSE [input |-> OtherSection, output |-> section]

\* client.validate_input / client.validate_output after a 2xx response
RemoteParse(path, response_data, policy_name, original_text) ==
    IF path = "input"
    THEN _parse_input_response(response_data, policy_name, original_text)
    ELSE _parse_output_response(response_data, policy_name, original_text)

ShouldRetry_Once(status, log) ==
    log = <<>> \/ ~raise_for_status(log[Len(log)].status)

\* whether a request that was answered with a raising status is sent again:
\* validate_input / validate_output post once and call raise_for_status;
\* neither they nor the loop of the orchestrator catch the error
ShouldRetry(status, log) == FALSE

LastDetails_KeepFirst(previous, details) ==
    IF previous = Nothing THEN details ELSE previous

\* `last_details = result.details` in the loop
LastDetails(previous, details) == details

Merge_LastWins(c, result) ==
    [c EXCEPT !.all_validations = c.all_validations \o result.validations,
              !.all_passed = result.validation_passed,
              !.last_details = LastDetails(c.last_details, result.details),
              !.i = c.i + 1]

\* the merge of one guard's result into the locals of the loop
Merge(c, result) ==
    [c EXCEPT !.all_validations = c.all_validations \o result.validations,
              !.all_passed = IF ~result.validation_passed THEN FALSE ELSE c.all_passed,
              !.last_details = LastDetails(c.last_details, result.details),
              !.i = c.i + 1]

\* one iteration of the loop of Guardrail._validate_input / _validate_output:
\* the lookup of the guard's client, its HTTP call, raise_for_status, the merge
DispatchRemote ==
    /\ call.pc = "dispatching"
    /\ call.path \in {"input", "output"}
    /\ call.i <= Len(_pointguardai_guards)
    /\ LET pg_guard == _pointguardai_guards[call.i]
           client == _pointguardai_clients[pg_guard.base_url]
           request == RemoteRequest(client, pg_guard, call)
       IN \E status \in HttpStatuses :
             IF raise_for_status(status)
             THEN /\ httpLog' = Append(httpLog, Answered(request, status, <<>>))
                  /\ IF ShouldRetry(status, httpLog)
                     THEN UNCHANGED <<call, outcome>>
                     ELSE End(Raise("HTTPStatusError"))
             ELSE \E section \in Sections :
                     LET response_data == ResponseData(call.path, section)
                     IN /\ httpLog' = Append(httpLog,
                                          Answered(request, status, response_data))
                        /\ call' = Merge(call,
                                RemoteParse(call.path, response_data,
                                    pg_guard.policy_name, call.generation))
                        /\ UNCHANGED outcome
    /\ UNCHANGED <<threads, ctor, guards, constructed, guardrail_timeout,
                   _pointguardai_guards, _pointguardai_clients, streamer>>

CombinedResult_AnyPassed(c) ==
    WithGuardrailResult(
        [cls |-> "PointGuardValidationResponse",
         validation_passed |->
            \E k \in 1..Len(c.all_validations) : c.all_validations[k].validation_passed,
         validations |-> c.all_validations,
         details |-> c.last_details,
         guardrail_result |-> None])

\* the combined result built after the loop
CombinedResult(c) ==
    WithGuardrailResult(
        [cls |-> "PointGuardValidationResponse",
         validation_passed |-> c.all_passed,
         validations |-> c.all_validations,
         details |-> c.last_details,
         guardrail_result |-> None])

\* the end of _validate_input / _validate_output, then _parse_result and,
\* for validate_and_get_*, get_validated_content
FinishRemote ==
    /\ call.pc = "dispatching"
    /\ call.path \in {"input", "output"}
    /\ call.i > Len(_pointguardai_guards)
    /\ End(AndGet(_parse_result(CombinedResult(call)), call.op, call.text))
    /\ UNCHANGED <<threads, ctor, guards, constructed, guardrail_timeout,
                   _pointguardai_guards, _pointguardai_clients, httpLog, streamer>>

\* ------------------------------------------------------------------------
\* Specification of the orchestrator: Init is the state after
\* Guardrail(guards=..., guardrail_timeout=...) over guards of GuardPool
\* ------------------------------------------------------------------------
GuardrailTimeouts == {NoTimeout}

Init ==
    /\ ctor = NoCtor
    /\ guards \in SeqsUpTo(GuardPool, MaxGuards)
    /\ constructed = TRUE
    /\ guardrail_timeout \in GuardrailTimeouts
    /\ _pointguardai_guards = SelectSeq(guards, IsPointGuardAi)
    /\ _pointguardai_clients = RegisterClients(guards, NoClients, guardrail_timeout)
    /\ call = IdleCall
    /\ httpLog = <<>>
    /\ streamer = <<>>
    /\ outcome = NoOutcome
    /\ threads = <<>>

Next ==
    \/ validate
    \/ validate_input
    \/ validate_output
    \/ validate_and_get_input
    \/ validate_and_get_output
    \/ _validate
    \/ DispatchRemote
    \/ FinishRemote

Spec == Init /\ [][Next]_vars

\* ------------------------------------------------------------------------
\* Specification of the orchestrator under every timeout setting:
\* Guardrail(guards=..., guardrail_timeout=t) with t unset, 0 or positive
\* ------------------------------------------------------------------------
TimeoutArgs == {NoTimeout, 0, 5}

InitTimeout ==
    /\ ctor = NoCtor
    /\ guards \in SeqsUpTo(GuardPool, MaxGuards)
    /\ constructed = TRUE
    /\ guardrail_timeout \in TimeoutArgs
    /\ _pointguardai_guards = SelectSeq(guards, IsPointGuardAi)
    /\ _pointguardai_clients = RegisterClients(guards, NoClients, guardrail_timeout)
    /\ call = IdleCall
    /\ httpLog = <<>>
    /\ streamer = <<>>
    /\ outcome = NoOutcome
    /\ threads = <<>>

SpecTimeout == InitTimeout /\ [][Next]_vars

\* ------------------------------------------------------------------------
\* Specification of construction: policy guards are constructed from
\* arguments and the environment, collected, and handed to Guardrail(...)
\* ------------------------------------------------------------------------
InitGuard ==
    /\ ctor = NoCtor
    /\ guards = <<>>
    /\ constructed = FALSE
    /\ guardrail_timeout = NoTimeout
    /\ _pointguardai_guards = <<>>
    /\ _pointguardai_clients = NoClients
    /\ call = IdleCall
    /\ httpLog = <<>>
    /\ streamer = <<>>
    /\ outcome = NoOutcome
    /\ threads = <<>>

\* PointGuardAi(policy_name, api_key, org) under environment e; a guard
\* that was constructed joins the list the orchestrator will be built from
NewPointGuardAi ==
    /\ ~constructed
    /\ Len(guards) < MaxGuards
    /\ \E policy_name \in PolicyArgs, api_key \in ApiKeyArgs, org \in OrgArgs,
          e \in Envs :
          LET r == PointGuardAiInit(policy_name, api_key, org, e)
          IN /\ ctor' = [policy_name |-> policy_name, api_key |-> api_key,
                         org |-> org, env |-> e, called |-> TRUE,
                         raised |-> r.raised, reads |-> r.reads]
             /\ guards' = IF r.raised = None THEN Append(guards, r.guard) ELSE guards
    /\ UNCHANGED <<threads, constructed, guardrail_timeout, _pointguardai_guards,
                   _pointguardai_clients, call, httpLog, streamer, outcome>>

\* Topic(...) / PII(...)
NewLocalGuard ==
    /\ ~constructed
    /\ Len(guards) < MaxGuards
    /\ \E k \in {"Topic", "PII"} : guards' = Append(guards, LocalGuard(k))
    /\ UNCHANGED <<threads, ctor, constructed, guardrail_timeout, _pointguardai_guards,
                   _pointguardai_clients, call, httpLog, streamer, outcome>>

\* Guardrail.__init__
GuardrailInit ==
    /\ ~constructed
    /\ constructed' = TRUE
    /\ \E t \in GuardrailTimeouts :
          /\ guardrail_timeout' = t
          /\ _pointguardai_clients' = RegisterClients(guards, NoClients, t)
    /\ _pointguardai_guards' = SelectSeq(guards, IsPointGuardAi)
    /\ UNCHANGED <<threads, ctor, guards, call, httpLog, streamer, outcome>>

NextGuard ==
    \/ NewPointGuardAi
    \/ NewLocalGuard
    \/ GuardrailInit

SpecGuard == InitGuard /\ [][NextGuard]_vars

\* ------------------------------------------------------------------------
\* Specification of concurrent use: several callers run validate_input /
\* validate_output on one orchestrator built from two policy guards that
\* share a handle. all_validations, all_passed and last_details are locals
\* of each call; the guard list, the registry and the client handles are
\* shared and only read. A step is one iteration of a caller's loop.
\* ------------------------------------------------------------------------
InFlightCalls == 2

Threads == 1..InFlightCalls

\* the text each caller validates
ThreadText(t) == <<"text", "text-2", "text-3", "text-4">>[t]

IdleThread == [call |-> IdleCall, httpLog |-> <<>>, outcome |-> NoOutcome]

\* the policy guards of the pool that share the default endpoint, hence one handle
ConcGuardPool ==
    {g \in GuardPool :
        IsPointGuardAi(g) /\ g.base_url = POINTGUARDAI_DEFAULT_BASE_URL}

\* the responses the policy backend gives under concurrent use:
\* passed, blocked, passed with redacted content
ConcSections ==
    {s \in Sections :
        /\ ~(s.blocked /\ s.modified)
        /\ s.content[1].modifiedContent = (IF s.modified THEN "REDACTED" ELSE None)}

CallLocals_Shared(t) ==
    threads[CHOOSE u \in Threads : threads[u].call.pc = "dispatching"].call

\* the locals of caller t's _validate_input / _validate_output
CallLocals(t) == threads[t].call

ThreadBegin(t, op, path, generation, input_text) ==
    /\ constructed
    /\ UsesRemote(_pointguardai_guards)
    /\ threads[t].call.pc \in {"idle", "passed", "failed", "error"}
    /\ threads' = [threads EXCEPT ![t] =
            [IdleThread EXCEPT !.call =
                [IdleCall EXCEPT !.pc = "dispatching", !.op = op, !.path = path,
                                 !.generation = generation,
                                 !.input_text = input_text,
                                 !.text = generation]]]
    /\ UNCHANGED <<ctor, guards, constructed, guardrail_timeout,
                   _pointguardai_guards, _pointguardai_clients, call, httpLog,
                   streamer, outcome>>

\* Guardrail.validate_input, called by caller t
ThreadValidateInput ==
    \E t \in Threads :
        ThreadBegin(t, "validate_input", "input", ThreadText(t), None)

\* Guardrail.validate_output, called by caller t
ThreadValidateOutput ==
    \E t \in Threads, input_text \in InputTexts :
        ThreadBegin(t, "validate_output", "output", ThreadText(t), input_text)

\* one iteration of the loop of caller t
ThreadDispatchRemote ==
    \E t \in Threads :
        /\ threads[t].call.pc = "dispatching"
        /\ CallLocals(t).i <= Len(_pointguardai_guards)
        /\ LET c == CallLocals(t)
               pg_guard == _pointguardai_guards[c.i]
               client == _pointguardai_clients[pg_guard.base_url]
               request == RemoteRequest(client, pg_guard, c)
           IN \E status \in HttpStatuses :
                 IF raise_for_status(status)
                 THEN IF ShouldRetry(status, threads[t].httpLog)
                      THEN threads' = [threads EXCEPT
                              ![t].httpLog = Append(@, Answered(request, status, <<>>))]
                      ELSE threads' = [threads EXCEPT
                              ![t].httpLog = Append(@, Answered(request, status, <<>>)),
                              ![t].outcome = Raise("HTTPStatusError"),
                              ![t].call.pc = "error"]
                 ELSE \E section \in ConcSections :
                         LET response_data == ResponseData(c.path, section)
                         IN threads' = [threads EXCEPT
                                ![t].httpLog =
                                    Append(@, Answered(request, status, response_data)),
                                ![t].call =
                                    Merge(c, RemoteParse(c.path, response_data,
                                                pg_guard.policy_name, c.generation))]
        /\ UNCHANGED <<ctor, guards, constructed, guardrail_timeout,
                       _pointguardai_guards, _pointguardai_clients, call, httpLog,
                       streamer, outcome>>

\* the end of caller t's _validate_input / _validate_output, then _parse_result
ThreadFinishRemote ==
    \E t \in Threads :
        /\ threads[t].call.pc = "dispatching"
        /\ CallLocals(t).i > Len(_pointguardai_guards)
        /\ LET out == _parse_result(CombinedResult(CallLocals(t)))
           IN threads' = [threads EXCEPT ![t].outcome = out,
                                         ![t].call.pc = PcOf(out)]
        /\ UNCHANGED <<ctor, guards, constructed, guardrail_timeout,
                       _pointguardai_guards, _pointguardai_clients, call, httpLog,
                       streamer, outcome>>

InitConc ==
    /\ ctor = NoCtor
    /\ guards \in {gs \in ConcGuardPool \X ConcGuardPool : gs[1] # gs[2]}
    /\ constructed = TRUE
    /\ guardrail_timeout \in GuardrailTimeouts
    /\ _pointguardai_guards = SelectSeq(guards, IsPointGuardAi)
    /\ _pointguardai_clients = RegisterClients(guards, NoClients, guardrail_timeout)
    /\ call = IdleCall
    /\ httpLog = <<>>
    /\ streamer = <<>>
    /\ outcome = NoOutcome
    /\ threads = [t \in Threads |-> IdleThread]

NextConc ==
    \/ ThreadValidateInput
    \/ ThreadValidateOutput
    \/ ThreadDispatchRemote
    \/ ThreadFinishRemote

SpecConc == InitConc /\ [][NextConc]_vars

\* ------------------------------------------------------------------------
\* Specification of the policy client alone: validate_input /
\* validate_output are called on a handle and the backend answers with any
\* status and any response body of RichBodies: content lists of zero, one or
\* two items, items with up to MaxViolations violations of each kind,
\* violations and sections with missing fields
\* ------------------------------------------------------------------------
MaxViolations == 2

\* raw violation descriptors as the backend sends them: without categories,
\* with every field and an extra one, with a name only
ViolationPool ==
    { [name |-> "SSN", type |-> "PII", action |-> "redact", matchCount |-> 1],
      [name |-> "Jailbreak", type |-> "AI", action |-> "block",
       categories |-> <<"prompt-injection">>, matchCount |-> 2,
       severity |-> "high"],
      [name |-> "Email"] }

RichItems ==
    {[originalContent |-> "text", modifiedContent |-> mc,
      dlpViolations |-> dlp, aiViolations |-> ai] :
        mc \in ModifiedContents,
        dlp \in SeqsUpTo(ViolationPool, MaxViolations),
        ai \in SeqsUpTo(ViolationPool, MaxViolations)}
    \cup {[originalContent |-> "text"],
          [originalContent |-> "text", modifiedContent |-> "REDACTED",
           aiViolations |-> <<[name |-> "Email"]>>]}

\* a content item after the first
LaterItem ==
    [originalContent |-> "later", modifiedContent |-> "LATER",
     dlpViolations |-> <<[name |-> "Later", type |-> "PII", action |-> "block",
                          matchCount |-> 7]>>,
     aiViolations |-> <<[name |-> "LaterAI"]>>]

RichContents ==
    {<<>>} \cup {<<it>> : it \in RichItems} \cup {<<it, LaterItem>> : it \in RichItems}

RichSections ==
    {[blocked |-> b, modified |-> m, content |-> c] :
        b \in BOOLEAN, m \in BOOLEAN, c \in RichContents}
    \cup {<<>>, [blocked |-> TRUE], [modified |-> TRUE, content |-> <<LaterItem>>]}

\* response bodies of a route: with the section of the route, or without it
RichBodies(path) ==
    {ResponseData(path, section) : section \in RichSections} \cup {<<>>}

\* one call on the handle: the request, its answer, and how the call ended
ClientEnd(op, path, generation, input_text, request, status, body, out) ==
    /\ call' = [IdleCall EXCEPT !.pc = PcOf(out), !.op = op, !.path = path,
                                !.generation = generation,
                                !.input_text = input_text, !.text = generation]
    /\ httpLog' = <<Answered(request, status, body)>>
    /\ outcome' = out
    /\ UNCHANGED <<ctor, guards, constructed, guardrail_timeout,
                   _pointguardai_guards, _pointguardai_clients, streamer, threads>>

Returned(result) ==
    [kind |-> "returned", result |-> result, failed_validations |-> <<>>,
     content |-> None]

\* PointGuardApiClient.validate_input
ClientValidateInput ==
    /\ call.pc = "idle"
    /\ \E u \in DOMAIN _pointguardai_clients, text \in Texts,
          policy_name \in {"policy-1"}, status \in HttpStatuses :
           LET request == InputRequest(_pointguardai_clients[u], text, policy_name)
           IN IF raise_for_status(status)
              THEN ClientEnd("client.validate_input", "input", text, None, request,
                             status, <<>>, Raise("HTTPStatusError"))
              ELSE \E response_data \in RichBodies("input") :
                      ClientEnd("client.validate_input", "input", text, None, request,
                                status, response_data,
                                Returned(_parse_input_response(response_data,
                                                               policy_name, text)))

\* PointGuardApiClient.validate_output
ClientValidateOutput ==
    /\ call.pc = "idle"
    /\ \E u \in DOMAIN _pointguardai_clients, input_text \in InputTexts,
          output_text \in Texts, policy_name \in {"policy-1"},
          status \in HttpStatuses :
           LET request == OutputRequest(_pointguardai_clients[u], input_text,
                                        output_text, policy_name)
           IN IF raise_for_status(status)
              THEN ClientEnd("client.validate_output", "output", output_text,
                             input_text, request, status, <<>>,
                             Raise("HTTPStatusError"))
              ELSE \E response_data \in RichBodies("output") :
                      ClientEnd("client.validate_output", "output", output_text,
                                input_text, request, status, response_data,
                                Returned(_parse_output_response(response_data,
                                                                policy_name,
                                                                output_text)))

InitClient ==
    /\ ctor = NoCtor
    /\ guards \in {<<g>> : g \in {h \in GuardPool : IsPointGuardAi(h)}}
    /\ constructed = TRUE
    /\ guardrail_timeout \in GuardrailTimeouts
    /\ _pointguardai_guards = SelectSeq(guards, IsPointGuardAi)
    /\ _pointguardai_clients = RegisterClients(guards, NoClients, guardrail_timeout)
    /\ call = IdleCall
    /\ httpLog = <<>>
    /\ streamer = <<>>
    /\ outcome = NoOutcome
    /\ threads = <<>>

NextClient ==
    \/ ClientValidateInput
    \/ ClientValidateOutput

SpecClient == InitClient /\ [][NextClient]_vars

\* ------------------------------------------------------------------------
\* Properties
\* ------------------------------------------------------------------------
Ended == call.pc \in {"passed", "failed", "error"}

\* the registered remote (policy) guards, in registration order
RemoteGuards == SelectSeq(guards, IsPointGuardAi)

IsLocalGuard(g) == ~IsPointGuardAi(g)

LocalGuards == SelectSeq(guards, IsLocalGuard)

Non2xx(status) == ~(200 <= status /\ status <= 299)

\* every request of the call in flight was answered 2xx
NoTransportError == \A k \in 1..Len(httpLog) : ~Non2xx(httpLog[k].status)

\* the section of a logged policy response that belongs to the request's route
SectionOf(entry) ==
    IF entry.route = "inspect/input" THEN entry.body.input ELSE entry.body.output

LocalCalls == {k \in 1..Len(httpLog) : httpLog[k].backend = "local"}

RemoteCalls == {k \in 1..Len(httpLog) : httpLog[k].backend = "remote"}

\* the k-th smallest element of a set of numbers
KthOf(S, k) == CHOOSE x \in S : Cardinality({y \in S : y <= x}) = k

\* f is the sub-sequence of the failed items of vs, in their order
IsFailedSubsequence(f, vs) ==
    LET idx == {k \in 1..Len(vs) : ~vs[k].validation_passed}
    IN /\ Len(f) = Cardinality(idx)
       /\ \A j \in 1..Len(f) : f[j] = vs[KthOf(idx, j)]

\* C1: with no remote (policy) guard registered, validate_input(text) and
\* validate_output(input_text, output_text) take the local-backend path:
\* exactly one local-backend call, on text resp. output_text, and no call
\* to a remote policy client.
C1_LocalFallback ==
    (/\ call.op \in {"validate_input", "validate_output"}
     /\ call.pc # "idle"
     /\ RemoteGuards = <<>>)
    => /\ RemoteCalls = {}
       /\ Ended => /\ Len(httpLog) = 1
                   /\ httpLog[1].backend = "local"
                   /\ httpLog[1].route = "validate"
                   /\ httpLog[1].input = call.text

C1_Witness ==
    /\ call.op = "validate_output"
    /\ RemoteGuards = <<>>
    /\ Len(guards) = 2
    /\ call.pc = "passed"
    /\ Len(httpLog) = 1
    /\ httpLog[1].backend = "local"
    /\ httpLog[1].input = call.text

\* C2: when some remote guard's policy response has blocked = true and no
\* transport error occurs, validate_input raises GuardrailValidationFailed
\* with an outcome whose overall-passed is false, and validate_and_get_input
\* returns no content, also when the response is marked modified.
C2_BlockedRaises ==
    (/\ call.op \in {"validate_input", "validate_and_get_input"}
     /\ call.path = "input"
     /\ Ended
     /\ NoTransportError
     /\ \E k \in 1..Len(httpLog) : httpLog[k].body.input.blocked)
    => /\ outcome.kind = "GuardrailValidationFailed"
       /\ ~outcome.result.validation_passed
       /\ outcome.content = None

C2_Witness ==
    /\ call.op = "validate_and_get_input"
    /\ call.path = "input"
    /\ Ended
    /\ Len(httpLog) = 1
    /\ httpLog[1].status = 200
    /\ httpLog[1].body.input.blocked
    /\ httpLog[1].body.input.modified
    /\ httpLog[1].body.input.content[1].modifiedContent = "REDACTED"
    /\ outcome.kind = "GuardrailValidationFailed"

\* C3 (as claimed): with a single remote guard, for every string X, a policy
\* response with modified = true, modifiedContent = X and blocked = false
\* makes validate_and_get_input(original) return X.
C3_ModifiedContentReturned ==
    (/\ call.op = "validate_and_get_input"
     /\ call.path = "input"
     /\ Len(RemoteGuards) = 1
     /\ Ended
     /\ Len(httpLog) = 1
     /\ httpLog[1].status = 200
     /\ httpLog[1].body.input.modified
     /\ ~httpLog[1].body.input.blocked
     /\ httpLog[1].body.input.content[1].modifiedContent # None)
    => /\ outcome.kind = "returned_content"
       /\ outcome.content = httpLog[1].body.input.content[1].modifiedContent

\* C4: when every policy response has modified = false and blocked = false,
\* validate_and_get_output(input, output) returns output unchanged, whatever
\* modifiedContent the response's content item carries.
C4_UnmodifiedOutputReturned ==
    (/\ call.op = "validate_and_get_output"
     /\ call.path = "output"
     /\ Ended
     /\ NoTransportError
     /\ \A k \in 1..Len(httpLog) :
            ~httpLog[k].body.output.modified /\ ~httpLog[k].body.output.blocked)
    => /\ outcome.kind = "returned_content"
       /\ outcome.content = call.text

C4_Witness ==
    /\ call.op = "validate_and_get_output"
    /\ call.path = "output"
    /\ Ended
    /\ Len(httpLog) = 1
    /\ httpLog[1].status = 200
    /\ ~httpLog[1].body.output.modified
    /\ ~httpLog[1].body.output.blocked
    /\ httpLog[1].body.output.content[1].modifiedContent = "REDACTED"
    /\ outcome.kind = "returned_content"
    /\ outcome.content = call.text

\* C5: with remote guards registered and no transport error, validate_input
\* and validate_output dispatch every remote guard in registration order (a
\* block does not skip later guards), overall-passed is the AND of the
\* guards' results, and the Check Items are the guards' items concatenated
\* in registration order.
C5_MultiGuardMerge ==
    (/\ call.path \in {"input", "output"}
     /\ call.pc \in {"passed", "failed"})
    => LET n == Len(RemoteGuards)
           vs == outcome.result.validations
       IN /\ Len(httpLog) = n
          /\ \A k \in 1..n :
                /\ httpLog[k].backend = "remote"
                /\ httpLog[k].policyName = RemoteGuards[k].policy_name
                /\ httpLog[k].route =
                      (IF call.path = "input" THEN "inspect/input" ELSE "inspect/output")
          /\ outcome.result.validation_passed
                = (\A k \in 1..n : ~SectionOf(httpLog[k]).blocked)
          /\ Len(vs) = n
          /\ \A k \in 1..n :
                /\ vs[k].type = "POINTGUARD"
                /\ vs[k].validation_config = RemoteGuards[k].policy_name
                /\ vs[k].validation_passed = ~SectionOf(httpLog[k]).blocked
                /\ vs[k].validation_details[1].blocked = SectionOf(httpLog[k]).blocked
                /\ vs[k].validation_details[1].modified = SectionOf(httpLog[k]).modified

C5_Witness ==
    /\ call.path = "input"
    /\ call.pc = "failed"
    /\ Len(RemoteGuards) = 2
    /\ RemoteGuards[1].policy_name # RemoteGuards[2].policy_name
    /\ Len(httpLog) = 2
    /\ httpLog[1].body.input.blocked
    /\ ~httpLog[2].body.input.blocked
    /\ ~outcome.result.validation_passed
    /\ Len(outcome.result.validations) = 2

\* C6: a non-2xx answer to a remote guard's HTTP call ends validate_input /
\* validate_output with the transport error: not GuardrailValidationFailed,
\* no merged outcome, also when an earlier guard reported blocked; no guard
\* after the failing one is dispatched.
C6_TransportFailFast ==
    \A k \in 1..Len(httpLog) :
        (httpLog[k].backend = "remote" /\ Non2xx(httpLog[k].status))
        => /\ k = Len(httpLog)
           /\ call.pc = "error"
           /\ outcome.kind = "HTTPStatusError"
           /\ outcome.result = NoResult
           /\ outcome.content = None

C6_Witness ==
    /\ call.path = "input"
    /\ Len(httpLog) = 2
    /\ Len(RemoteGuards) = 2
    /\ httpLog[1].status = 200
    /\ httpLog[1].body.input.blocked
    /\ httpLog[2].backend = "remote"
    /\ httpLog[2].status = 500
    /\ outcome.kind = "HTTPStatusError"

\* C7: constructing a policy guard with no (empty) policy name fails with
\* the configuration error whatever the API key, the organization and the
\* environment are, before the environment is read; no guard object and so
\* no client handle exists for it, and construction issues no network call.
C7_PolicyNameRequired ==
    /\ (ctor.called /\ ~Truthy(ctor.policy_name))
       => /\ ctor.raised = "ValueError: policy_name is required"
          /\ ctor.reads = <<>>
    /\ \A k \in 1..Len(guards) :
          IsPointGuardAi(guards[k]) => Truthy(guards[k].policy_name)
    /\ \A u \in DOMAIN _pointguardai_clients :
          \E k \in 1..Len(guards) :
              /\ IsPointGuardAi(guards[k])
              /\ guards[k].base_url = u
              /\ Truthy(guards[k].policy_name)
    /\ httpLog = <<>>

C7_Witness ==
    /\ ctor.called
    /\ ctor.policy_name = ""
    /\ ctor.api_key = "key-1"
    /\ ctor.org = "org-1"
    /\ ctor.env.POINTGUARDAI_API_KEY = "env-key"
    /\ ctor.raised = "ValueError: policy_name is required"
    /\ guards = <<>>
    /\ constructed
    /\ DOMAIN _pointguardai_clients = {}

\* a required value is absent from the argument and from the environment
Absent(arg, envval) == ~Truthy(arg) /\ ~Truthy(envval)

\* C8 (as claimed): constructing a policy guard fails with a configuration
\* error whenever the policy name, the API key or the organization is absent
\* from both the arguments and the environment.
C8_RequiredFieldsEnforced ==
    (/\ ctor.called
     /\ \/ ~Truthy(ctor.policy_name)
        \/ Absent(ctor.api_key, ctor.env.POINTGUARDAI_API_KEY)
        \/ Absent(ctor.org, ctor.env.POINTGUARDAI_ORG))
    => ctor.raised # None

\* C9 (as claimed): validate(text) issues exactly one local-backend batch
\* call when a local guard is registered and none when no local guard is
\* registered; the batch carries the guards' check-configs in registration
\* order against the single input string.
C9_OneLocalBatchCall ==
    (call.op = "validate" /\ Ended)
    => IF LocalGuards # <<>>
       THEN /\ Len(httpLog) = 1
            /\ httpLog[1].backend = "local"
            /\ httpLog[1].input = call.text
            /\ httpLog[1].validations
                  \in {CollectConfigs(guards), CollectConfigs(LocalGuards)}
       ELSE LocalCalls = {}

\* C10: validate, validate_input and validate_output raise
\* GuardrailValidationFailed exactly when the outcome's overall-passed is
\* false; the failure carries the full outcome and, as failed items, exactly
\* the outcome's Check Items with passed = false in their order; otherwise
\* the outcome is returned.
C10_RaiseOnFailure ==
    (/\ call.op \in {"validate", "validate_input", "validate_output"}
     /\ Ended
     /\ outcome.result.cls # None
     /\ NoTransportError)
    => LET result == outcome.result
           items ==
               IF call.path = "local"
               THEN [k \in 1..Len(httpLog[1].body) |->
                        [passed |-> httpLog[1].body[k],
                         config |-> httpLog[1].validations[k].config]]
               ELSE [k \in 1..Len(httpLog) |->
                        [passed |-> ~SectionOf(httpLog[k]).blocked,
                         config |-> httpLog[k].policyName]]
       IN /\ outcome.kind \in {"returned", "GuardrailValidationFailed"}
          /\ (outcome.kind = "GuardrailValidationFailed") <=> ~result.validation_passed
          /\ result.validation_passed = (\A k \in 1..Len(items) : items[k].passed)
          /\ Len(result.validations) = Len(items)
          /\ \A k \in 1..Len(items) :
                /\ result.validations[k].validation_passed = items[k].passed
                /\ result.validations[k].validation_config = items[k].config
          /\ IF outcome.kind = "GuardrailValidationFailed"
             THEN IsFailedSubsequence(outcome.failed_validations, result.validations)
             ELSE outcome.failed_validations = <<>>
          /\ call.pc = (IF result.validation_passed THEN "passed" ELSE "failed")

C10_Witness ==
    /\ call.op = "validate_input"
    /\ call.path = "input"
    /\ outcome.kind = "GuardrailValidationFailed"
    /\ Len(outcome.result.validations) = 2
    /\ outcome.result.validations[1].validation_passed
    /\ ~outcome.result.validations[2].validation_passed
    /\ outcome.failed_validations = <<outcome.result.validations[2]>>


\* C11: every outcome a validate operation produces, on the local or the
\* remote path, for one or several guards, has overall-passed false exactly
\* when at least one of its Check Items failed; a detail section with
\* blocked = true implies overall-passed false; and for a single policy
\* response overall-passed is NOT blocked, whatever the modified flag.
C11_OutcomeInvariant ==
    (Ended /\ outcome.result.cls # None)
    => LET result == outcome.result
       IN /\ (~result.validation_passed)
                <=> (\E k \in 1..Len(result.validations) :
                        ~result.validations[k].validation_passed)
          /\ (result.details # Nothing /\ result.details[1].blocked)
                => ~result.validation_passed
          /\ (call.path \in {"input", "output"} /\ Len(httpLog) = 1)
                => result.validation_passed = ~SectionOf(httpLog[1]).blocked

C11_Witness ==
    /\ Ended
    /\ call.path = "input"
    /\ Len(httpLog) = 2
    /\ outcome.result.cls # None
    /\ SectionOf(httpLog[1]).blocked
    /\ ~SectionOf(httpLog[2]).blocked
    /\ SectionOf(httpLog[2]).modified
    /\ ~outcome.result.details[1].blocked
    /\ ~outcome.result.validation_passed

\* C12: with no policy guard registered and a local backend that reports
\* every check passed (telemetry emitted), validate_and_get_input(text)
\* returns text unchanged and validate_and_get_output(input_text,
\* output_text) returns output_text unchanged, instead of ending in an error.
C12_LocalAndGetReturnsText ==
    (/\ call.op \in AndGetOps
     /\ Ended
     /\ RemoteGuards = <<>>
     /\ LocalGuards # <<>>
     /\ Len(httpLog) = 1
     /\ ~Non2xx(httpLog[1].status)
     /\ \A k \in 1..Len(httpLog[1].body) : httpLog[1].body[k]
     /\ streamer # <<>>)
    => /\ outcome.kind = "returned_content"
       /\ outcome.content = call.text

\* C13: every validate_input / validate_output call that dispatches to policy
\* guards and completes without a transport error has put on the telemetry
\* sink, by the time it returns or raises GuardrailValidationFailed, one
\* record per Check Item of the merged outcome (check type, pass / fail,
\* config, detail payload), for passed and failed outcomes alike.
C13_RemoteTelemetry ==
    (/\ call.op \in {"validate_input", "validate_output"}
     /\ call.path \in {"input", "output"}
     /\ call.pc \in {"passed", "failed"})
    => /\ Len(streamer) = 1
       /\ streamer[1] = GuardrailBatch(outcome.result)

\* C14: telemetry never masks the validation outcome: when the local backend
\* has answered, validate, validate_input and validate_output end exactly as
\* the backend's result dictates (returned when every check passed,
\* GuardrailValidationFailed otherwise), also when no span / trace context is
\* active or the sink fails while the records are emitted.
C14_TelemetryNeverMasks ==
    (/\ call.op \in {"validate", "validate_input", "validate_output"}
     /\ call.path = "local"
     /\ Ended
     /\ Len(httpLog) = 1
     /\ ~Non2xx(httpLog[1].status))
    => /\ outcome.kind \notin {"AssertionError", "StreamerError"}
       /\ outcome.kind =
            (IF \A k \in 1..Len(httpLog[1].body) : httpLog[1].body[k]
             THEN "returned" ELSE "GuardrailValidationFailed")

\* C15: every request dispatched on a policy guard's behalf is sent with
\* that guard's own API key and organization: two guards on the same base
\* endpoint with different key / organization never use one another's
\* credentials.
C15_OwnCredentials ==
    call.path \in {"input", "output"}
    => \A k \in 1..Len(httpLog) :
          /\ httpLog[k].policyName = RemoteGuards[k].policy_name
          /\ httpLog[k].api_key = RemoteGuards[k].api_key
          /\ httpLog[k].org = RemoteGuards[k].org

\* C16: for every interleaving of two or more validate_input /
\* validate_output calls in flight on one orchestrator, each call's outcome
\* is computed only from the responses to its own requests (which carry its
\* own text), and no step of a call writes the guard list, the handle
\* registry or a field of a handle.
C16_CallsIsolated ==
    /\ [](\A t \in DOMAIN threads :
            LET c == threads[t].call
                log == threads[t].httpLog
                out == threads[t].outcome
            IN /\ \A k \in 1..Len(log) :
                    /\ (IF c.path = "input" THEN log[k].input ELSE log[k].output)
                          = ThreadText(t)
                    /\ log[k].policyName = _pointguardai_guards[k].policy_name
               /\ c.pc \in {"passed", "failed"}
                    => /\ Len(log) = Len(_pointguardai_guards)
                       /\ Len(out.result.validations) = Len(log)
                       /\ \A k \in 1..Len(log) :
                            /\ out.result.validations[k].validation_passed
                                  = ~SectionOf(log[k]).blocked
                            /\ out.result.validations[k].validation_config
                                  = log[k].policyName
                            /\ out.result.validations[k].validation_details[1].modified
                                  = SectionOf(log[k]).modified
                       /\ out.result.validation_passed
                            = (\A k \in 1..Len(log) : ~SectionOf(log[k]).blocked)
                       /\ out.result.details[1].blocked
                            = SectionOf(log[Len(log)]).blocked
                       /\ out.result.details[1].modified
                            = SectionOf(log[Len(log)]).modified)
    /\ [][/\ guards' = guards
          /\ _pointguardai_guards' = _pointguardai_guards
          /\ _pointguardai_clients' = _pointguardai_clients]_vars

C16_Witness ==
    /\ threads # <<>>
    /\ threads[1].call.pc = "failed"
    /\ threads[2].call.pc = "passed"
    /\ Len(threads[1].httpLog) = 2
    /\ Len(threads[2].httpLog) = 2
    /\ threads[1].call.op = "validate_input"
    /\ threads[2].call.op = "validate_output"

\* C17: no retry. Within one validate_input / validate_output call the k-th
\* request is the one request of the k-th registered policy guard: a guard
\* receives at most one request, exactly one when no earlier guard hit a
\* transport error; within one validate call the local backend receives at
\* most one request; a non-2xx response is never followed by another request
\* in the same call.
C17_NoRetry ==
    /\ \A k \in 1..Len(httpLog) : Non2xx(httpLog[k].status) => k = Len(httpLog)
    /\ call.path \in {"input", "output"}
        => /\ Len(httpLog) <= Len(RemoteGuards)
           /\ \A k \in 1..Len(httpLog) :
                /\ httpLog[k].backend = "remote"
                /\ httpLog[k].policyName = RemoteGuards[k].policy_name
           /\ Ended => \/ Len(httpLog) = Len(RemoteGuards)
                       \/ Non2xx(httpLog[Len(httpLog)].status)
    /\ call.path = "local"
        => /\ Len(httpLog) <= 1
           /\ \A k \in 1..Len(httpLog) : httpLog[k].backend = "local"

C17_Witness ==
    /\ call.op = "validate_output"
    /\ call.path = "output"
    /\ Ended
    /\ Len(RemoteGuards) = 2
    /\ Len(httpLog) = 1
    /\ Non2xx(httpLog[1].status)

\* C18: with n >= 1 policy guards and no transport error, the details
\* section of the merged outcome is exactly the detail payload (blocked,
\* modified, violations, modified content) of the last registered guard's
\* response; the details of earlier guards are not kept there, while every
\* guard's Check Item and pass / fail result is.
C18_LastDetailsRetained ==
    (/\ call.path \in {"input", "output"}
     /\ call.pc \in {"passed", "failed"})
    => LET n == Len(httpLog)
           last == SectionOf(httpLog[n])
           result == outcome.result
       IN /\ n = Len(RemoteGuards)
          /\ n >= 1
          /\ result.details # Nothing
          /\ result.details[1].blocked = last.blocked
          /\ result.details[1].modified = last.modified
          /\ result.details[1].modified_content
                = (IF last.modified THEN last.content[1].modifiedContent ELSE None)
          /\ result.details = result.validations[n].validation_details
          /\ Len(result.validations) = n
          /\ \A k \in 1..n :
                /\ result.validations[k].validation_passed
                      = ~SectionOf(httpLog[k]).blocked
                /\ result.validations[k].validation_details[1].modified
                      = SectionOf(httpLog[k]).modified

C18_Witness ==
    /\ call.path = "output"
    /\ call.pc = "passed"
    /\ Len(httpLog) = 2
    /\ SectionOf(httpLog[1]).modified
    /\ SectionOf(httpLog[1]).content[1].modifiedContent = "REDACTED"
    /\ ~SectionOf(httpLog[2]).modified
    /\ ~outcome.result.details[1].modified
    /\ outcome.result.details[1].modified_content = None
    /\ outcome.result.validations[1].validation_details[1].modified_content = "REDACTED"

\* the section of the response that a client call parsed, its content
\* list, and the detail payload the call returned
ParsedSection ==
    LET body == httpLog[1].body
        key == IF call.path = "input" THEN "input" ELSE "output"
    IN IF key \in DOMAIN body THEN body[key] ELSE <<>>

ParsedContent ==
    IF "content" \in DOMAIN ParsedSection THEN ParsedSection.content ELSE <<>>

ClientReturned ==
    /\ call.op \in {"client.validate_input", "client.validate_output"}
    /\ outcome.kind = "returned"

\* n is the raw violation v reduced to the five fields, with the defaults
IsReduced(n, v) ==
    /\ DOMAIN n = {"name", "type", "action", "categories", "matchCount"}
    /\ n.name = (IF "name" \in DOMAIN v THEN v.name ELSE None)
    /\ n.type = (IF "type" \in DOMAIN v THEN v.type ELSE None)
    /\ n.action = (IF "action" \in DOMAIN v THEN v.action ELSE None)
    /\ n.categories = (IF "categories" \in DOMAIN v THEN v.categories ELSE <<>>)
    /\ n.matchCount = (IF "matchCount" \in DOMAIN v THEN v.matchCount ELSE 0)

\* C19: the violation list of a parsed response is the dlpViolations of the
\* first content item followed by its aiViolations (length = sum, order
\* kept), each reduced to exactly name, type, action, categories, matchCount
\* with categories defaulting to the empty list and matchCount to 0;
\* violations of later content items never appear; an empty content list
\* yields an empty violation list.
C19_ViolationNormalization ==
    ClientReturned
    => LET violations == outcome.result.details[1].violations
       IN IF ParsedContent = <<>>
          THEN violations = <<>>
          ELSE LET item == ParsedContent[1]
                   dlp == IF "dlpViolations" \in DOMAIN item
                          THEN item.dlpViolations ELSE <<>>
                   ai == IF "aiViolations" \in DOMAIN item
                         THEN item.aiViolations ELSE <<>>
               IN /\ Len(violations) = Len(dlp) + Len(ai)
                  /\ \A k \in 1..Len(dlp) : IsReduced(violations[k], dlp[k])
                  /\ \A k \in 1..Len(ai) :
                        IsReduced(violations[Len(dlp) + k], ai[k])

C19_Witness ==
    /\ ClientReturned
    /\ Len(ParsedContent) = 2
    /\ {"dlpViolations", "aiViolations"} \subseteq DOMAIN ParsedContent[1]
    /\ Len(ParsedContent[1].dlpViolations) = 1
    /\ ParsedContent[1].dlpViolations[1].name = "SSN"
    /\ Len(ParsedContent[1].aiViolations) = 1
    /\ ParsedContent[1].aiViolations[1].name = "Jailbreak"
    /\ outcome.result.details[1].violations =
          << [name |-> "SSN", type |-> "PII", action |-> "redact",
              categories |-> <<>>, matchCount |-> 1],
             [name |-> "Jailbreak", type |-> "AI", action |-> "block",
              categories |-> <<"prompt-injection">>, matchCount |-> 2] >>

\* C20: in every outcome parsed from a policy response, modified_content is
\* present only if the section's modified flag is true, and then equals the
\* modifiedContent of the first content item; with modified false it is
\* absent even if the item carries a modifiedContent.
C20_ModifiedContentOnlyIfModified ==
    ClientReturned
    => LET details == outcome.result.details[1]
           modified == IF "modified" \in DOMAIN ParsedSection
                       THEN ParsedSection.modified ELSE FALSE
       IN /\ details.modified = modified
          /\ details.modified_content # None
                => /\ modified
                   /\ ParsedContent # <<>>
                   /\ "modifiedContent" \in DOMAIN ParsedContent[1]
                   /\ details.modified_content = ParsedContent[1].modifiedContent
          /\ ~modified => details.modified_content = None

C20_Witness ==
    /\ ClientReturned
    /\ "modified" \in DOMAIN ParsedSection
    /\ ~ParsedSection.modified
    /\ Len(ParsedContent) = 1
    /\ "modifiedContent" \in DOMAIN ParsedContent[1]
    /\ ParsedContent[1].modifiedContent = "REDACTED"
    /\ outcome.result.details[1].modified_content = None

\* C21: every HTTP call of the local-backend client and of every policy
\* client is bounded by the configured guardrail_timeout: by no timeout
\* when it is not set, by exactly t when it is set to t.
C21_PerCallTimeout ==
    \A k \in 1..Len(httpLog) : httpLog[k].timeout = guardrail_timeout

\* C21, amended: the local-backend client bounds every HTTP call by the
\* resolved config_.guardrail_timeout as it is; a policy client bounds every
\* HTTP call by guardrail_timeout when that is set to a non-zero t and by
\* 30 seconds when it is not set or is 0.
C21_PerCallTimeoutAmended ==
    \A k \in 1..Len(httpLog) :
        IF httpLog[k].backend = "local"
        THEN httpLog[k].timeout = guardrail_timeout
        ELSE httpLog[k].timeout =
                (IF guardrail_timeout = NoTimeout \/ guardrail_timeout = 0
                 THEN 30 ELSE guardrail_timeout)

C21_Witness ==
    /\ guardrail_timeout = NoTimeout
    /\ call.path = "output"
    /\ Len(httpLog) = 2
    /\ httpLog[1].backend = "remote"
    /\ httpLog[1].timeout = 30
    /\ httpLog[2].timeout = 30

C23_RegistryInvariant ==
    /\ [](constructed =>
            /\ _pointguardai_guards = RemoteGuards
            /\ DOMAIN _pointguardai_clients
                  = {RemoteGuards[k].base_url : k \in 1..Len(RemoteGuards)}
            /\ \A k \in 1..Len(_pointguardai_guards) :
                  _pointguardai_guards[k].base_url \in DOMAIN _pointguardai_clients
            /\ \A u \in DOMAIN _pointguardai_clients :
                  _pointguardai_clients[u]._base_url = RStripSlash(u))
    /\ [][constructed =>
            /\ guards' = guards
            /\ _pointguardai_guards' = _pointguardai_guards
            /\ _pointguardai_clients' = _pointguardai_clients]_vars

C23_Witness ==
    /\ Len(RemoteGuards) = 2
    /\ Cardinality(DOMAIN _pointguardai_clients) = 1
    /\ call.op = "validate_and_get_output"
    /\ call.pc = "error"
    /\ outcome.kind = "HTTPStatusError"
    /\ Len(httpLog) = 2

====
